---- MODULE Spec2Model ----
(***************************************************************************)
(* State-machine model of smbasic.py: the SMBasic I2C session (device      *)
(* handle, address selection, alarm-bounded read/write, multiplexer        *)
(* channel lock around a `with` scope, advisory lock flag).                *)
(*                                                                         *)
(* Python values are represented as follows.                               *)
(*   None                 NONE for integers, <<>> for self.channel         *)
(*   bytes / bytearray    a sequence of integers 0..255                    *)
(*   an open file object  the bus number it was opened on                  *)
(*   an exception class   its name as a string, "none" when nothing is     *)
(*                        being raised                                     *)
(* print() and the verbose flag only produce output and are left out.      *)
(***************************************************************************)
EXTENDS Integers, Sequences, FiniteSets, TLC

(***************************************************************************)
(* Program constants                                                       *)
(***************************************************************************)
_I2C_TIMEOUT == 2

_MUX_UNLOCK_REGISTER == <<0>>

\* the literal address of the first unlock write in __exit__
ExitFirstUnlockAddr == 112

(***************************************************************************)
(* Bounds of the model                                                     *)
(***************************************************************************)
\* bus numbers 1..MaxBus can be passed to open()
MaxBus == 1

\* read_bytes is called with number in 0..MaxNumber
MaxNumber == 2

\* at most MaxPolls poll reads are followed inside one __enter__ or __exit__
MaxPolls == 2

\* the second thread starts a call only while busLog has fewer entries
MaxLog == 2

(***************************************************************************)
(* Input domains                                                           *)
(***************************************************************************)
\* stands for Python's None where an integer is expected
NONE == -1000

\* the threads that can hold a reference to the session; signals are handled
\* by the main thread, which is also the one that runs the with-statement
Main == "main"

Worker == "worker"

Threads == {Main, Worker}

Buses == 1..MaxBus

\* constructor arguments: mux is None or an address, channel None or an index
MuxArgs == {NONE, 112, 113}

ChannelArgs == {NONE, -1, 0, 7, 8}

\* addresses the session body reads and writes (one of them above 7 bits)
BodyAddrs == {64, 192}

\* buffers the session body writes; [256] stands for an argument that is not
\* bytes-like, which file.write() rejects with TypeError
BodyBufs == {<<1>>, <<256>>}

\* values a byte delivered by the bus can take
ByteVals == {0, 1, 128}

(***************************************************************************)
(* State                                                                   *)
(***************************************************************************)
VARIABLES
    mux,        \* self.mux
    channel,    \* self.channel: <<mask>>, or <<>> for None
    _device,    \* self._device: NONE or the bus of the open file
    _locked,    \* self._locked
    alarm,      \* TRUE while the process-wide SIGALRM deadline is armed
    selected,   \* slave address bound to the open file by the last ioctl
    phase,      \* where the main thread is: "init", "failed", "outside",
                \* "enter", "body", "exit"
    frame,      \* per thread, the read_bytes/write_bytes call it executes
    polls,      \* poll reads made so far by the running __enter__/__exit__
    busLog,     \* bus operations issued by the running or last operation
                \* that uses the bus (read, write, scope entry, scope exit)
    lastOp,     \* the last finished operation of the main thread, NoOp while
                \* a call of read_bytes, write_bytes, __enter__ or __exit__ runs
    grants,     \* try_lock calls that returned True since the last unlock
    bodyExit,   \* how the with-body was left: "none", "return", "raise"
    args        \* the arguments the constructor was called with

sessVars == <<mux, channel, _device, _locked>>

envVars == <<alarm, selected>>

histVars == <<busLog, lastOp, grants, bodyExit, args>>

vars == <<mux, channel, _device, _locked, alarm, selected, phase, frame,
          polls, busLog, lastOp, grants, bodyExit, args>>

(***************************************************************************)
(* Pure helpers                                                            *)
(***************************************************************************)
RECURSIVE Pow2(_)
Pow2(n) == IF n = 0 THEN 1 ELSE 2 * Pow2(n - 1)

\* bytearray(number): number zero bytes
ZeroBuf(number) == [i \in 1..number |-> 0]

\* every byte string of length 0..n over ByteVals (what a read can deliver)
RECURSIVE BytesUpTo(_)
BytesUpTo(n) ==
    IF n = 0 THEN {<<>>}
    ELSE LET shorter == BytesUpTo(n - 1)
         IN  shorter \cup {Append(s, b) : s \in {x \in shorter : Len(x) = n - 1},
                                          b \in ByteVals}

\* the address passed on as given
SlaveAddrUnmasked(addr) == addr

\* addr & 0x7F
SlaveAddr(addr) == addr % 128

\* signal.alarm(seconds): the deadline is armed iff seconds is not zero
SignalAlarm(seconds) == seconds # 0

NoFrame ==
    [pc |-> "idle", op |-> "none", addr |-> NONE, number |-> 0, buf |-> <<>>,
     result |-> <<>>, exc |-> "none", caller |-> "none"]

NoOp ==
    [name |-> "none", outcome |-> "none", exc |-> "none", ret |-> <<>>,
     flag |-> FALSE]

Done(name, outcome, exc, ret, flag) ==
    [name |-> name, outcome |-> outcome, exc |-> exc, ret |-> ret,
     flag |-> flag]

Idle(t) == frame[t].pc = "idle"

(***************************************************************************)
(* Lockable                                                                *)
(***************************************************************************)
\* try_lock without the test of the flag
try_lock_unchecked(locked) == [ret |-> TRUE, locked |-> TRUE]

\* try_lock: the value returned and the flag left behind
try_lock(locked) ==
    IF locked THEN [ret |-> FALSE, locked |-> locked]
    ELSE [ret |-> TRUE, locked |-> TRUE]

\* unlock: the flag left behind
unlock(locked) == IF locked THEN FALSE ELSE locked

(***************************************************************************)
(* SMBasic.__init__, open, close                                           *)
(***************************************************************************)
\* the assertion weakened to "a mux needs a channel"
ConfigOkMuxOnly(m, c) == (m # NONE) => (c # NONE)

\* the assertion of __init__: mux and channel are both given or both absent
ConfigOk(m, c) == ~((m # NONE) /= (c # NONE))

\* bytearray([1 << channel]) raises ValueError unless the byte is in 0..255
MaskFits(c) == c >= 0 /\ Pow2(c) <= 255

\* the channel index stored where the mask belongs
ChannelIndex(c) == IF c # NONE THEN <<c>> ELSE <<>>

\* self.channel after __init__
ChannelMask(c) == IF c # NONE THEN <<Pow2(c)>> ELSE <<>>

\* the test missing: close() always reaches self._device.close()
HasDeviceAlways(dev) == TRUE

\* close(): if self._device is not None
HasDevice(dev) == dev # NONE

\* close(): self._device afterwards
close(dev) == IF HasDevice(dev) THEN NONE ELSE dev

\* close(): what self._device.close() raises (None has no close attribute)
CloseExc(dev) == IF HasDevice(dev) /\ dev = NONE THEN "AttributeError" ELSE "none"

\* open(bus): self._device afterwards; ok says whether the device file opens
open(dev, bus, ok) == IF ok THEN bus ELSE close(dev)

Init ==
    /\ mux = NONE
    /\ channel = <<>>
    /\ _device = NONE
    /\ _locked = FALSE
    /\ alarm = FALSE
    /\ selected = NONE
    /\ phase = "init"
    /\ frame = [t \in Threads |-> NoFrame]
    /\ polls = 0
    /\ busLog = <<>>
    /\ lastOp = NoOp
    /\ grants = 0
    /\ bodyExit = "none"
    /\ args = [bus |-> NONE, mux |-> NONE, channel |-> NONE, openable |-> FALSE]

\* SMBasic(bus, mux=m, channel=c)
Construct ==
    /\ phase = "init"
    /\ \E bus \in Buses, m \in MuxArgs, c \in ChannelArgs, ok \in BOOLEAN :
        /\ args' = [bus |-> bus, mux |-> m, channel |-> c, openable |-> ok]
        /\ IF ~ConfigOk(m, c)
           THEN /\ phase' = "failed"
                /\ lastOp' = Done("__init__", "raised", "AssertionError", <<>>, FALSE)
                /\ UNCHANGED <<mux, channel, _device>>
           ELSE IF c # NONE /\ ~MaskFits(c)
           THEN /\ phase' = "failed"
                /\ mux' = m
                /\ lastOp' = Done("__init__", "raised", "ValueError", <<>>, FALSE)
                /\ UNCHANGED <<channel, _device>>
           ELSE /\ mux' = m
                /\ channel' = ChannelMask(c)
                /\ _device' = open(NONE, bus, ok)
                /\ phase' = IF ok THEN "outside" ELSE "failed"
                /\ lastOp' = IF ok
                             THEN Done("__init__", "returned", "none", <<>>, FALSE)
                             ELSE Done("__init__", "raised", "OSError", <<>>, FALSE)
    /\ UNCHANGED <<_locked, alarm, selected, frame, polls, busLog, grants,
                   bodyExit>>

\* the session can be used between operations, inside or outside a with-body
Usable == phase \in {"outside", "body"} /\ Idle(Main)

\* open(bus) called by the user
Open ==
    /\ Usable
    /\ \E bus \in Buses, ok \in BOOLEAN :
        /\ _device' = open(_device, bus, ok)
        /\ selected' = NONE
        /\ lastOp' = IF ok THEN Done("open", "returned", "none", <<>>, FALSE)
                     ELSE Done("open", "raised", "OSError", <<>>, FALSE)
    /\ UNCHANGED <<mux, channel, _locked, alarm, phase, frame, polls, busLog,
                   grants, bodyExit, args>>

\* close() that also gives up the advisory lock
CloseReleasesLock ==
    /\ Usable
    /\ _device' = close(_device)
    /\ selected' = NONE
    /\ _locked' = FALSE
    /\ lastOp' = Done("close", "returned", "none", <<>>, _device = NONE)
    /\ UNCHANGED <<mux, channel, alarm, phase, frame, polls, busLog,
                   grants, bodyExit, args>>

\* close() called by the user
Close ==
    /\ Usable
    /\ IF CloseExc(_device) = "none"
       THEN /\ _device' = close(_device)
            /\ selected' = NONE
            /\ lastOp' = Done("close", "returned", "none", <<>>, _device = NONE)
       ELSE /\ lastOp' = Done("close", "raised", CloseExc(_device), <<>>,
                              _device = NONE)
            /\ UNCHANGED <<_device, selected>>
    /\ UNCHANGED <<mux, channel, _locked, alarm, phase, frame, polls, busLog,
                   grants, bodyExit, args>>

TryLock ==
    /\ Usable
    /\ _locked' = try_lock(_locked).locked
    /\ lastOp' = Done("try_lock", "returned", "none", <<>>, try_lock(_locked).ret)
    /\ grants' = IF try_lock(_locked).ret /\ grants < 2 THEN grants + 1 ELSE grants
    /\ UNCHANGED <<mux, channel, _device, alarm, selected, phase, frame, polls,
                   busLog, bodyExit, args>>

Unlock ==
    /\ Usable
    /\ _locked' = unlock(_locked)
    /\ lastOp' = Done("unlock", "returned", "none", <<>>, FALSE)
    /\ grants' = 0
    /\ UNCHANGED <<mux, channel, _device, alarm, selected, phase, frame, polls,
                   busLog, bodyExit, args>>

(***************************************************************************)
(* read_bytes and write_bytes, one step of the code per action             *)
(***************************************************************************)
\* the frame of a call that has just been made
Call(op, addr, number, buf, caller) ==
    [pc |-> "assert", op |-> op, addr |-> addr, number |-> number, buf |-> buf,
     result |-> <<>>, exc |-> "none", caller |-> caller]

\* an entry of busLog: the operation, the slave address it went to, the bytes
\* written or delivered, and how it ended: "ok", "fault" (OSError) or
\* "timeout" for a select or a read, "sent" for every write that was issued
BusOp(op, addr, data, out) == [op |-> op, addr |-> addr, data |-> data, out |-> out]

Failed(op, how) == IF op = "write" THEN "sent" ELSE how

\* file.write(buf) accepts bytes-like buffers only
BytesLike(buf) == \A i \in 1..Len(buf) : buf[i] \in 0..255

\* the precondition left unchecked
BusNotChecked(dev) == TRUE

\* the precondition asserted first by read_bytes and write_bytes
BusIsOpen(dev) == dev # NONE

\* the finally clause without signal.alarm(0)
DisarmSkipped(armed) == armed

\* signal.alarm(0) in the finally clause: whether the deadline stays armed
DisarmOnExit(armed) == SignalAlarm(0)

\* read_bytes(addr, number) called by the user
ReadBytes ==
    /\ Usable
    /\ \E addr \in BodyAddrs, number \in 0..MaxNumber :
        frame' = [frame EXCEPT ![Main] = Call("read", addr, number, <<>>, "user")]
    /\ busLog' = <<>>
    /\ lastOp' = NoOp
    /\ UNCHANGED <<sessVars, envVars, phase, polls, grants, bodyExit, args>>

\* write_bytes(addr, buf) called by the user
WriteBytes ==
    /\ Usable
    /\ \E addr \in BodyAddrs, buf \in BodyBufs :
        frame' = [frame EXCEPT ![Main] = Call("write", addr, 0, buf, "user")]
    /\ busLog' = <<>>
    /\ lastOp' = NoOp
    /\ UNCHANGED <<sessVars, envVars, phase, polls, grants, bodyExit, args>>

\* assert self._device is not None
AssertOpen(t) ==
    /\ frame[t].pc = "assert"
    /\ frame' = [frame EXCEPT ![t] =
                    IF BusIsOpen(_device)
                    THEN [@ EXCEPT !.pc = "select"]
                    ELSE [@ EXCEPT !.pc = "raised", !.exc = "AssertionError"]]
    /\ UNCHANGED <<sessVars, envVars, phase, polls, histVars>>

\* _select_device: ioctl(self._device.fileno(), _I2C_DEVICE, addr & 0x7F),
\* which the driver accepts or refuses with OSError
SelectDevice(t) ==
    /\ frame[t].pc = "select"
    /\ IF _device = NONE
       THEN /\ frame' = [frame EXCEPT ![t].pc = "raised",
                                      ![t].exc = "AttributeError"]
            /\ UNCHANGED <<selected, busLog>>
       ELSE \E ok \in BOOLEAN :
            IF ok
            THEN /\ selected' = SlaveAddr(frame[t].addr)
                 /\ busLog' = Append(busLog,
                        BusOp("select", SlaveAddr(frame[t].addr), <<>>, "ok"))
                 /\ frame' = [frame EXCEPT ![t].pc = "arm"]
            ELSE /\ busLog' = Append(busLog,
                        BusOp("select", SlaveAddr(frame[t].addr), <<>>, "fault"))
                 /\ frame' = [frame EXCEPT ![t].pc = "raised",
                                           ![t].exc = "OSError"]
                 /\ UNCHANGED selected
    /\ UNCHANGED <<sessVars, alarm, phase, polls, lastOp, grants, bodyExit, args>>

\* signal.signal(SIGALRM, handle_timeout); signal.alarm(_I2C_TIMEOUT).
\* signal.signal() can only be called from the main thread: in any other
\* thread it raises ValueError, before the deadline is armed and before the
\* try statement is entered
ArmDeadline(t) ==
    /\ frame[t].pc = "arm"
    /\ IF t = Main
       THEN /\ alarm' = SignalAlarm(_I2C_TIMEOUT)
            /\ frame' = [frame EXCEPT ![t].pc = "transfer"]
       ELSE /\ frame' = [frame EXCEPT ![t].pc = "raised", ![t].exc = "ValueError"]
            /\ UNCHANGED alarm
    /\ UNCHANGED <<sessVars, selected, phase, polls, histVars>>

\* self._device.read(number) / self._device.write(buf) ends before the
\* deadline: with data (a read may be short), with OSError, or, for an
\* argument the file object rejects, with TypeError
Transfer(t) ==
    /\ frame[t].pc = "transfer"
    /\ \/ /\ frame[t].op = "read"
          /\ \E data \in BytesUpTo(frame[t].number) :
                /\ busLog' = Append(busLog, BusOp("read", selected, data, "ok"))
                /\ frame' = [frame EXCEPT ![t].pc = "tail", ![t].result = data]
       \/ /\ frame[t].op = "write"
          /\ BytesLike(frame[t].buf)
          /\ busLog' = Append(busLog, BusOp("write", selected, frame[t].buf, "sent"))
          /\ frame' = [frame EXCEPT ![t].pc = "tail"]
       \/ /\ frame[t].op = "write"
          /\ ~BytesLike(frame[t].buf)
          /\ frame' = [frame EXCEPT ![t].pc = "finally", ![t].exc = "TypeError"]
          /\ UNCHANGED busLog
       \/ /\ frame[t].op = "write" => BytesLike(frame[t].buf)
          /\ busLog' = Append(busLog,
                BusOp(frame[t].op, selected, frame[t].buf, Failed(frame[t].op, "fault")))
          /\ frame' = [frame EXCEPT ![t].pc = "except"]
    /\ UNCHANGED <<sessVars, envVars, phase, polls, lastOp, grants, bodyExit, args>>

\* The deadline expires: SIGALRM is delivered and handle_timeout raises
\* TimeoutException in the main thread, wherever it is executing
\*   in the blocking transfer or later in the try body: the except clause
\*     for TimeoutException catches it,
\*   in an except clause: it leaves the clause and the finally clause runs,
\*   in the finally clause before signal.alarm(0): it leaves the call.
AlarmFires ==
    /\ alarm
    /\ frame[Main].pc \in {"transfer", "tail", "except", "finally"}
    /\ alarm' = FALSE
    /\ \/ /\ frame[Main].pc = "transfer"
          /\ frame[Main].op = "write" => BytesLike(frame[Main].buf)
          /\ busLog' = Append(busLog,
                BusOp(frame[Main].op, selected, frame[Main].buf,
                      Failed(frame[Main].op, "timeout")))
          /\ frame' = [frame EXCEPT ![Main].pc = "except"]
       \/ /\ frame[Main].pc = "tail"
          /\ frame' = [frame EXCEPT ![Main].pc = "except", ![Main].result = <<>>]
          /\ UNCHANGED busLog
       \/ /\ frame[Main].pc = "except"
          /\ frame' = [frame EXCEPT ![Main].pc = "finally",
                                    ![Main].exc = "TimeoutException"]
          /\ UNCHANGED busLog
       \/ /\ frame[Main].pc = "finally"
          /\ frame' = [frame EXCEPT ![Main].pc = "raised",
                                    ![Main].exc = "TimeoutException"]
          /\ UNCHANGED busLog
    /\ UNCHANGED <<sessVars, selected, phase, polls, lastOp, grants, bodyExit, args>>

\* the rest of the try body after the transfer: return result (read) or fall
\* off its end (write); the finally clause runs next
TryEnd(t) ==
    /\ frame[t].pc = "tail"
    /\ frame' = [frame EXCEPT ![t].pc = "finally"]
    /\ UNCHANGED <<sessVars, envVars, phase, polls, histVars>>

\* what the call returns once an except clause has handled the failure:
\* bytearray(number) for read_bytes, None for write_bytes
Degraded(op, number) == IF op = "read" THEN ZeroBuf(number) ELSE <<>>

\* except TimeoutException / except OSError: print the diagnostic; the finally
\* clause runs next and the call goes on to its last statement
Handler(t) ==
    /\ frame[t].pc = "except"
    /\ frame' = [frame EXCEPT ![t].pc = "finally",
                              ![t].result = Degraded(frame[t].op, frame[t].number)]
    /\ UNCHANGED <<sessVars, envVars, phase, polls, histVars>>

\* finally: signal.alarm(0); then the call returns or the pending exception
\* goes on to the caller
Finally(t) ==
    /\ frame[t].pc = "finally"
    /\ alarm' = DisarmOnExit(alarm)
    /\ frame' = [frame EXCEPT ![t].pc =
                    IF frame[t].exc = "none" THEN "returned" ELSE "raised"]
    /\ UNCHANGED <<sessVars, selected, phase, polls, histVars>>

Ended(t) == frame[t].pc \in {"returned", "raised"}

Outcome(t) == frame[t].pc

\* the value a finished call hands to its caller
Returned(t) == IF frame[t].pc = "returned" THEN frame[t].result ELSE <<>>

\* a call made by the user comes back to the user
UserCallEnd ==
    /\ Ended(Main)
    /\ frame[Main].caller = "user"
    /\ lastOp' = Done(IF frame[Main].op = "read" THEN "read_bytes" ELSE "write_bytes",
                      Outcome(Main), frame[Main].exc, Returned(Main), FALSE)
    /\ frame' = [frame EXCEPT ![Main] = NoFrame]
    /\ UNCHANGED <<sessVars, envVars, phase, polls, busLog, grants, bodyExit, args>>

(***************************************************************************)
(* __enter__ and __exit__                                                  *)
(***************************************************************************)
\* self.mux is not None and self.channel is not None
MuxConfigured == mux # NONE /\ channel # <<>>

\* ord(x) is defined for a single byte only (TypeError otherwise)
OrdDefined(x) == Len(x) = 1

\* ord(x).to_bytes(1, 'big')
PollByte(x) == <<x[1] % 256>>

\* the loop condition comparing what can never be equal
LockPendingAlways(x) == TRUE

\* the loop condition of __enter__: the poll does not show the channel mask
LockPending(x) == PollByte(x) # channel

\* the loop condition of __exit__: the poll does not show b'\x00'
UnlockPending(x) == PollByte(x) # <<0>>

\* with session: __enter__ starts; without a mux it returns at once
EnterStart ==
    /\ phase = "outside"
    /\ Idle(Main)
    /\ busLog' = <<>>
    /\ polls' = 0
    /\ bodyExit' = "none"
    /\ IF MuxConfigured
       THEN /\ phase' = "enter"
            /\ frame' = [frame EXCEPT ![Main] = Call("write", mux, 0, channel, "enter")]
            /\ lastOp' = NoOp
       ELSE /\ phase' = "body"
            /\ lastOp' = Done("__enter__", "returned", "none", <<>>, FALSE)
            /\ UNCHANGED frame
    /\ UNCHANGED <<sessVars, envVars, grants, args>>

\* a lock write of __enter__ has returned: poll the mux
EnterPoll ==
    /\ phase = "enter"
    /\ frame[Main].pc = "returned"
    /\ frame[Main].op = "write"
    /\ polls < MaxPolls
    /\ polls' = polls + 1
    /\ frame' = [frame EXCEPT ![Main] = Call("read", mux, 1, <<>>, "enter")]
    /\ UNCHANGED <<sessVars, envVars, phase, histVars>>

\* a poll of __enter__ has returned: ord() fails, or the mask is not there
\* and the lock write is repeated after the sleep, or __enter__ returns self
EnterCheck ==
    /\ phase = "enter"
    /\ frame[Main].pc = "returned"
    /\ frame[Main].op = "read"
    /\ IF ~OrdDefined(frame[Main].result)
       THEN /\ phase' = "outside"
            /\ frame' = [frame EXCEPT ![Main] = NoFrame]
            /\ lastOp' = Done("__enter__", "raised", "TypeError", <<>>, FALSE)
       ELSE IF LockPending(frame[Main].result)
       THEN /\ frame' = [frame EXCEPT ![Main] = Call("write", mux, 0, channel, "enter")]
            /\ UNCHANGED <<phase, lastOp>>
       ELSE /\ phase' = "body"
            /\ frame' = [frame EXCEPT ![Main] = NoFrame]
            /\ lastOp' = Done("__enter__", "returned", "none", <<>>, FALSE)
    /\ UNCHANGED <<sessVars, envVars, polls, busLog, grants, bodyExit, args>>

\* a call made by __enter__ raised: __enter__ raises, the body and __exit__
\* do not run
EnterRaise ==
    /\ phase = "enter"
    /\ frame[Main].pc = "raised"
    /\ phase' = "outside"
    /\ frame' = [frame EXCEPT ![Main] = NoFrame]
    /\ lastOp' = Done("__enter__", "raised", frame[Main].exc, <<>>, FALSE)
    /\ UNCHANGED <<sessVars, envVars, polls, busLog, grants, bodyExit, args>>

\* the with-body is left, by reaching its end or by an exception, and
\* __exit__ starts; without a mux it closes the device and returns at once
ExitStart ==
    /\ phase = "body"
    /\ Idle(Main)
    /\ \E how \in {"return", "raise"} : bodyExit' = how
    /\ busLog' = <<>>
    /\ polls' = 0
    /\ IF MuxConfigured
       THEN /\ phase' = "exit"
            /\ frame' = [frame EXCEPT ![Main] =
                    Call("write", ExitFirstUnlockAddr, 0, _MUX_UNLOCK_REGISTER, "exit")]
            /\ lastOp' = NoOp
            /\ UNCHANGED <<_device, selected>>
       ELSE /\ phase' = "outside"
            /\ _device' = close(_device)
            /\ selected' = NONE
            /\ lastOp' = Done("__exit__", "returned", "none", <<>>, FALSE)
            /\ UNCHANGED frame
    /\ UNCHANGED <<mux, channel, _locked, alarm, grants, args>>

\* an unlock write of __exit__ has returned: poll the mux
ExitPoll ==
    /\ phase = "exit"
    /\ frame[Main].pc = "returned"
    /\ frame[Main].op = "write"
    /\ polls < MaxPolls
    /\ polls' = polls + 1
    /\ frame' = [frame EXCEPT ![Main] = Call("read", mux, 1, <<>>, "exit")]
    /\ UNCHANGED <<sessVars, envVars, phase, histVars>>

\* a poll of __exit__ has returned: ord() fails, or the byte is not zero and
\* the unlock write is repeated after the sleep, or the device is closed and
\* __exit__ returns False
ExitCheck ==
    /\ phase = "exit"
    /\ frame[Main].pc = "returned"
    /\ frame[Main].op = "read"
    /\ IF ~OrdDefined(frame[Main].result)
       THEN /\ phase' = "outside"
            /\ frame' = [frame EXCEPT ![Main] = NoFrame]
            /\ lastOp' = Done("__exit__", "raised", "TypeError", <<>>, FALSE)
            /\ UNCHANGED <<_device, selected>>
       ELSE IF UnlockPending(frame[Main].result)
       THEN /\ frame' = [frame EXCEPT ![Main] = Call("write", mux, 0, <<0>>, "exit")]
            /\ UNCHANGED <<phase, lastOp, _device, selected>>
       ELSE /\ phase' = "outside"
            /\ _device' = close(_device)
            /\ selected' = NONE
            /\ frame' = [frame EXCEPT ![Main] = NoFrame]
            /\ lastOp' = Done("__exit__", "returned", "none", <<>>, FALSE)
    /\ UNCHANGED <<mux, channel, _locked, alarm, polls, busLog, grants, bodyExit, args>>

\* a call made by __exit__ raised: __exit__ raises without reaching close()
ExitRaise ==
    /\ phase = "exit"
    /\ frame[Main].pc = "raised"
    /\ phase' = "outside"
    /\ frame' = [frame EXCEPT ![Main] = NoFrame]
    /\ lastOp' = Done("__exit__", "raised", frame[Main].exc, <<>>, FALSE)
    /\ UNCHANGED <<sessVars, envVars, polls, busLog, grants, bodyExit, args>>

(***************************************************************************)
(* Specification: one thread of control uses the session                   *)
(***************************************************************************)
CallStep(t) ==
    \/ AssertOpen(t)
    \/ SelectDevice(t)
    \/ ArmDeadline(t)
    \/ Transfer(t)
    \/ TryEnd(t)
    \/ Handler(t)
    \/ Finally(t)

Next ==
    \/ Construct
    \/ Open
    \/ Close
    \/ TryLock
    \/ Unlock
    \/ ReadBytes
    \/ WriteBytes
    \/ CallStep(Main)
    \/ AlarmFires
    \/ UserCallEnd
    \/ EnterStart
    \/ EnterPoll
    \/ EnterCheck
    \/ EnterRaise
    \/ ExitStart
    \/ ExitPoll
    \/ ExitCheck
    \/ ExitRaise

Spec == Init /\ [][Next]_vars

TypeOK ==
    /\ mux \in MuxArgs
    /\ Len(channel) <= 1
    /\ _device \in Buses \cup {NONE}
    /\ _locked \in BOOLEAN
    /\ alarm \in BOOLEAN
    /\ phase \in {"init", "failed", "outside", "enter", "body", "exit"}
    /\ polls \in 0..MaxPolls
    /\ grants \in 0..2

(***************************************************************************)
(* Specification: a second thread calls read_bytes and write_bytes on the  *)
(* session while the main thread does.  self._lock is created by __init__  *)
(* and never acquired, so no step of a call waits for another thread.      *)
(***************************************************************************)
\* read_bytes(addr, number) called by the second thread
WorkerRead ==
    /\ phase = "outside"
    /\ Idle(Worker)
    /\ Len(busLog) < MaxLog
    /\ \E addr \in BodyAddrs, number \in 0..MaxNumber :
        frame' = [frame EXCEPT ![Worker] = Call("read", addr, number, <<>>, "user")]
    /\ UNCHANGED <<sessVars, envVars, phase, polls, histVars>>

\* write_bytes(addr, buf) called by the second thread
WorkerWrite ==
    /\ phase = "outside"
    /\ Idle(Worker)
    /\ Len(busLog) < MaxLog
    /\ \E addr \in BodyAddrs, buf \in BodyBufs :
        frame' = [frame EXCEPT ![Worker] = Call("write", addr, 0, buf, "user")]
    /\ UNCHANGED <<sessVars, envVars, phase, polls, histVars>>

\* the call of the second thread comes back to it
WorkerCallEnd ==
    /\ Ended(Worker)
    /\ frame' = [frame EXCEPT ![Worker] = NoFrame]
    /\ UNCHANGED <<sessVars, envVars, phase, polls, histVars>>

NextThreads ==
    \/ Construct
    \/ ReadBytes
    \/ WriteBytes
    \/ CallStep(Main)
    \/ AlarmFires
    \/ UserCallEnd
    \/ WorkerRead
    \/ WorkerWrite
    \/ CallStep(Worker)
    \/ WorkerCallEnd

SpecThreads == Init /\ [][NextThreads]_vars

(***************************************************************************)
(* Specification: the bus answers every request in time, and a device that *)
(* has been written to since the running operation began answers a read    *)
(* with the last byte written to it (a multiplexer echoing its register).  *)
(***************************************************************************)
\* the positions in busLog of the writes sent to addr
WrittenTo(addr) ==
    {i \in 1..Len(busLog) : busLog[i].op = "write" /\ busLog[i].addr = addr}

\* the last byte written to addr
LastWritten(addr) ==
    LET last == CHOOSE i \in WrittenTo(addr) : \A j \in WrittenTo(addr) : j <= i
    IN  busLog[last].data[Len(busLog[last].data)]

\* what an echoing device at addr delivers to a read of number bytes
EchoReply(addr, number) == [i \in 1..number |-> LastWritten(addr)]

\* the ioctl is accepted
EchoSelect(t) ==
    /\ SelectDevice(t)
    /\ frame'[t].pc = "arm"

\* the transfer ends without OSError, a read of a written device echoes
EchoTransfer(t) ==
    /\ Transfer(t)
    /\ frame'[t].pc # "except"
    /\ (frame[t].op = "read" /\ WrittenTo(selected) # {}) =>
            frame'[t].result = EchoReply(selected, frame[t].number)

NextEcho ==
    \/ Construct
    \/ Open
    \/ Close
    \/ TryLock
    \/ Unlock
    \/ ReadBytes
    \/ WriteBytes
    \/ AssertOpen(Main)
    \/ EchoSelect(Main)
    \/ ArmDeadline(Main)
    \/ EchoTransfer(Main)
    \/ TryEnd(Main)
    \/ Finally(Main)
    \/ UserCallEnd
    \/ EnterStart
    \/ EnterPoll
    \/ EnterCheck
    \/ EnterRaise
    \/ ExitStart
    \/ ExitPoll
    \/ ExitCheck
    \/ ExitRaise

\* the thread that runs the session keeps running
SpecEcho == Init /\ [][NextEcho]_vars /\ WF_vars(NextEcho)

(***************************************************************************)
(* Properties                                                              *)
(***************************************************************************)
IsTransfer(e) == e.op # "select"

\* the reads and writes of busLog, in order
Transfers == SelectSeq(busLog, IsTransfer)

\* C1: a read_bytes or write_bytes call made while the session is closed
\* ends with the not-open assertion error, and up to then no address has been
\* selected, no byte transferred and no deadline armed.
C1_ClosedCallFailsFirst ==
    /\ \A t \in Threads :
        (~Idle(t) /\ _device = NONE) =>
            /\ frame[t].pc \in {"assert", "raised"}
            /\ frame[t].pc = "raised" => frame[t].exc = "AssertionError"
            /\ busLog = <<>>
            /\ selected = NONE
            /\ ~alarm
    /\ (lastOp.name \in {"read_bytes", "write_bytes"} /\ _device = NONE) =>
            /\ lastOp.outcome = "raised"
            /\ lastOp.exc = "AssertionError"
            /\ busLog = <<>>
            /\ ~alarm

\* a read on the closed session has come back with the assertion error
C1_Witness ==
    /\ _device = NONE
    /\ lastOp.name = "read_bytes"
    /\ lastOp.exc = "AssertionError"

\* C2: every unlock write of __exit__, the first one included, goes to the
\* configured mux address.
C2_UnlockWritesGoToMux ==
    phase = "exit" =>
        \A i \in 1..Len(busLog) :
            busLog[i].op = "write" => busLog[i].addr = SlaveAddr(mux)

\* C3: when __exit__ of a session with a mux has ended, it has issued at
\* least one all-zero write to the mux.
C3_ExitIssuesUnlock ==
    (lastOp.name = "__exit__" /\ MuxConfigured) =>
        \E i \in 1..Len(busLog) :
            /\ busLog[i].op = "write"
            /\ busLog[i].addr = SlaveAddr(mux)
            /\ busLog[i].data = <<0>>

\* C4: when __exit__ has ended, by returning or by raising, the device
\* handle is closed.
C4_ExitClosesDevice ==
    lastOp.name = "__exit__" => _device = NONE

\* the transfer of the call that is ending timed out or raised OSError
ReadTransferFailed ==
    /\ busLog # <<>>
    /\ busLog[Len(busLog)].op = "read"
    /\ busLog[Len(busLog)].out \in {"timeout", "fault"}

\* C5: a read_bytes call whose transfer timed out or raised OSError returns,
\* without raising, number zero bytes.
C5_FailedReadReturnsZeros ==
    \A t \in Threads :
        (frame[t].op = "read" /\ Ended(t) /\ ReadTransferFailed) =>
            /\ frame[t].pc = "returned"
            /\ frame[t].result = ZeroBuf(frame[t].number)

\* C6: no read_bytes or write_bytes call hands a timeout or a device error to
\* its caller as an exception.
C6_NoFailureEscapes ==
    \A t \in Threads :
        frame[t].pc = "raised" => frame[t].exc \notin {"TimeoutException", "OSError"}

\* C7: with mux and channel c given, __enter__ transfers nothing but
\* write (1 << c) to the mux, read the mux, write, read, ... in this order,
\* and when it returns the last of them is a read that the mux answered with
\* the byte (1 << c); a read that timed out or faulted is never the last one.
C7_EntryLocksByMask ==
    (MuxConfigured /\ (phase = "enter" \/ lastOp.name = "__enter__")) =>
        LET ops  == Transfers
            mask == <<Pow2(args.channel)>>
        IN  /\ \A i \in 1..Len(ops) :
                IF i % 2 = 1
                THEN /\ ops[i].op = "write"
                     /\ ops[i].addr = SlaveAddr(args.mux)
                     /\ ops[i].data = mask
                ELSE /\ ops[i].op = "read"
                     /\ ops[i].addr = SlaveAddr(args.mux)
            /\ lastOp.outcome = "returned" =>
                /\ Len(ops) >= 2
                /\ Len(ops) % 2 = 0
                /\ ops[Len(ops)].out = "ok"
                /\ ops[Len(ops)].data = mask

\* __enter__ has returned after a poll that timed out, a repeated lock write
\* and a poll that showed the mask
C7_Witness ==
    /\ MuxConfigured
    /\ lastOp.name = "__enter__"
    /\ lastOp.outcome = "returned"
    /\ Len(Transfers) = 4
    /\ Transfers[2].out = "timeout"

\* C8: the flag is held exactly when one try_lock has returned True since the
\* last unlock, never more than one; after unlock it is not held; a try_lock
\* returns True exactly when the flag was not held, and one that returns
\* False changes nothing.
C8_LockFlag ==
    /\ [](/\ grants <= 1
          /\ _locked <=> grants = 1
          /\ lastOp.name = "unlock" => ~_locked
          /\ lastOp.name = "try_lock" => _locked)
    /\ [][(lastOp' # lastOp /\ lastOp'.name = "try_lock") =>
            /\ lastOp'.flag = ~_locked
            /\ _locked'
            /\ ~lastOp'.flag => UNCHANGED <<sessVars, envVars, grants, busLog>>]_vars

\* a second try_lock before any unlock has returned False
C8_Witness ==
    /\ lastOp.name = "try_lock"
    /\ ~lastOp.flag
    /\ _locked
    /\ grants = 1

ExactlyOneGiven == (args.mux = NONE) # (args.channel = NONE)

\* C9 as stated: the constructor fails with the assertion error when exactly
\* one of mux and channel is given, and otherwise succeeds and leaves the
\* session open whenever the bus device can be opened.
C9_ConstructorAsStated ==
    lastOp.name = "__init__" =>
        IF ExactlyOneGiven
        THEN lastOp.exc = "AssertionError"
        ELSE args.openable => (lastOp.outcome = "returned" /\ _device # NONE)

\* C9 amended: the constructor fails with the assertion error when exactly
\* one of mux and channel is given; with both given and a channel outside
\* 0..7 it fails with ValueError; otherwise it succeeds and leaves the
\* session open on the bus when the bus device can be opened, and fails with
\* OSError when it cannot.  A failed constructor leaves no open device.
C9_Constructor ==
    lastOp.name = "__init__" =>
        IF ExactlyOneGiven
        THEN lastOp.exc = "AssertionError" /\ _device = NONE
        ELSE IF args.channel # NONE /\ args.channel \notin 0..7
        THEN lastOp.exc = "ValueError" /\ _device = NONE
        ELSE IF args.openable
        THEN lastOp.outcome = "returned" /\ _device = args.bus /\ phase = "outside"
        ELSE lastOp.exc = "OSError" /\ _device = NONE

\* the constructor has succeeded with a mux and the highest channel
C9_Witness ==
    /\ lastOp.name = "__init__"
    /\ lastOp.outcome = "returned"
    /\ args.mux # NONE
    /\ args.channel = 7
    /\ _device # NONE

\* the positions of a thread inside read_bytes or write_bytes
Executing(t) ==
    frame[t].pc \in {"assert", "select", "arm", "transfer", "tail", "except", "finally"}

\* C10: in every state where no read_bytes or write_bytes call is executing,
\* no deadline is armed.
C10_DeadlineOnlyInsideCall ==
    (\A t \in Threads : ~Executing(t)) => ~alarm

\* a write that armed the deadline has left the call with TypeError
C10_Witness ==
    /\ frame[Main].pc = "raised"
    /\ frame[Main].exc = "TypeError"
    /\ ~alarm

\* a thread has selected its address and has not yet left the call
InFlight(t) == frame[t].pc \in {"arm", "transfer", "tail", "except", "finally"}

\* C11: when several threads call read_bytes or write_bytes on the session,
\* at most one of them at a time is between its address selection and the
\* end of its call, and at most one deadline is armed.
C11_OneTransferInFlight ==
    Cardinality({t \in Threads : InFlight(t)}) <= 1

\* C12: with a mux that echoes the last byte written to it, __enter__ on an
\* open session makes one lock write and one poll, never a second lock
\* write, and returns.
C12_EchoMuxLocksAtFirstPoll ==
    /\ [](  (MuxConfigured /\ (phase = "enter" \/ lastOp.name = "__enter__")) =>
                /\ Len(Transfers) <= 2
                /\ polls <= 1
                /\ lastOp.outcome = "returned" =>
                        (Len(Transfers) = 2 /\ polls = 1) )
    /\ (phase = "enter" /\ _device # NONE)
            ~> (lastOp.name = "__enter__" /\ lastOp.outcome = "returned")

\* __enter__ has returned after one lock write and one poll showing the mask
C12_Witness ==
    /\ MuxConfigured
    /\ lastOp.name = "__enter__"
    /\ lastOp.outcome = "returned"
    /\ Len(Transfers) = 2
    /\ Transfers[1].op = "write"
    /\ Transfers[2].data = channel

\* C13: close() never raises and leaves the session closed; on a session that
\* is already closed it changes nothing, so a second close() leaves the state
\* the first one left.
C13_CloseIdempotent ==
    /\ [](lastOp.name = "close" =>
            (lastOp.outcome = "returned" /\ lastOp.exc = "none" /\ _device = NONE))
    /\ [][ (lastOp' # lastOp /\ lastOp'.name = "close" /\ _device = NONE) =>
                /\ lastOp'.outcome = "returned"
                /\ UNCHANGED <<sessVars, envVars, phase, frame, polls, busLog,
                               grants, bodyExit, args>> ]_vars

\* close() has been called on a session that was closed already
C13_Witness ==
    /\ lastOp.name = "close"
    /\ lastOp.flag
    /\ _device = NONE

\* C14: when __exit__ of a session with a mux has returned, its last poll was
\* answered by the mux itself with the byte 0x00; a poll that timed out or
\* faulted is never the one that ends the polling.
C14_UnlockedOnlyAfterZeroDelivered ==
    (MuxConfigured /\ lastOp.name = "__exit__" /\ lastOp.outcome = "returned") =>
        /\ Transfers # <<>>
        /\ Transfers[Len(Transfers)].op = "read"
        /\ Transfers[Len(Transfers)].out = "ok"
        /\ Transfers[Len(Transfers)].data = <<0>>

\* C15: wherever the deadline expires between arming and disarming, no
\* read_bytes or write_bytes call ends by raising TimeoutException.
C15_TimeoutNeverEscapes ==
    \A t \in Threads : ~(frame[t].pc = "raised" /\ frame[t].exc = "TimeoutException")

\* C16: when __enter__ of a session with a mux raises after it has issued a
\* lock write, an all-zero unlock write has gone out and the device is closed
\* by the time the caller sees the failure.
C16_FailedEntryCleansUp ==
    ( /\ MuxConfigured
      /\ lastOp.name = "__enter__"
      /\ lastOp.outcome = "raised"
      /\ \E i \in 1..Len(busLog) : busLog[i].op = "write" ) =>
        /\ _device = NONE
        /\ \E i \in 1..Len(busLog) :
                busLog[i].op = "write" /\ busLog[i].data = <<0>>

MaskDelivered ==
    \E i \in 1..Len(busLog) :
        /\ busLog[i].op = "read"
        /\ busLog[i].out = "ok"
        /\ busLog[i].data = channel

\* C18: on an open session with a mux that never answers a poll with the
\* channel mask, __enter__ never ends, neither by returning nor by raising.
C18_EntryNeverEnds ==
    ~( /\ MuxConfigured
       /\ lastOp.name = "__enter__"
       /\ busLog # <<>>
       /\ ~MaskDelivered )

\* C19: a step that changes the advisory flag is a try_lock or an unlock
\* step; such a step changes neither the device handle nor the mux
\* configuration, issues no bus operation and arms no deadline; and the
\* not-open assertion of read_bytes and write_bytes passes on an open session
\* whatever the flag is.
C19_FlagIndependent ==
    [][ /\ (_locked' # _locked) => lastOp'.name \in {"try_lock", "unlock"}
        /\ (lastOp' # lastOp /\ lastOp'.name \in {"try_lock", "unlock"}) =>
                UNCHANGED <<mux, channel, _device, envVars, phase, frame, polls,
                            busLog, bodyExit, args>>
        /\ \A t \in Threads :
            (frame[t].pc = "assert" /\ frame'[t] # frame[t] /\ _device # NONE) =>
                frame'[t].pc = "select" ]_vars

\* read_bytes has returned its bytes while the advisory flag was held
C19_Witness ==
    /\ _locked
    /\ _device # NONE
    /\ lastOp.name = "read_bytes"
    /\ lastOp.outcome = "returned"
    /\ Len(busLog) = 2
    /\ busLog[2].out = "ok"

====
